---------------------------- MODULE Spec2Model ----------------------------
(***************************************************************************)
(* A model of the avarjoyas-api server (src/server.js): an Express          *)
(* application with an admin login (bcrypt + JWT), a product catalogue, a  *)
(* subscriber list and a contact-form mailer.                               *)
(*                                                                         *)
(* Every request is one record of the sequence reqs, appended when the     *)
(* request arrives.  The arrival action runs the synchronous part of the   *)
(* handler (middleware, validation, the call that starts the external      *)
(* operation); the request then waits (pc = "awaitCompare", "awaitDb" or   *)
(* "awaitMail") while other requests are served, and a completion action   *)
(* runs the rest of the handler when the external operation settles.       *)
(***************************************************************************)
EXTENDS Integers, Sequences, FiniteSets, TLC

(***************************************************************************)
(* Bounds of the model.                                                    *)
(***************************************************************************)
MaxReq == 2

(***************************************************************************)
(* Program constants.                                                      *)
(***************************************************************************)
\* expiresIn: "8h" of jwt.sign, in seconds (the unit of a token's iat/exp)
ExpiresInSec == 28800
\* Date.now() is in milliseconds; jsonwebtoken works on Math.floor(Date.now() / 1000)
MsPerSec == 1000

(***************************************************************************)
(* JavaScript values.  Strings whose characters matter (the Authorization  *)
(* header, an email) are "text": sequences of characters.                  *)
(***************************************************************************)
Undef == [t |-> "undefined"]
Null == [t |-> "null"]
Str(s) == [t |-> "string", v |-> s]
Num(n) == [t |-> "number", v |-> n]
Bool(b) == [t |-> "boolean", v |-> b]
Text(s) == [t |-> "text", v |-> s]

\* !x is FALSE
Truthy(x) ==
  CASE x.t = "string" -> x.v # ""
    [] x.t = "text" -> x.v # <<>>
    [] x.t = "number" -> x.v # 0
    [] x.t = "boolean" -> x.v
    [] OTHER -> FALSE

\* x == null
LooseNull(x) == x.t \in {"undefined", "null"}

IsString(x) == x.t \in {"string", "text"}

\* a || b
Or(a, b) == IF Truthy(a) THEN a ELSE b

(***************************************************************************)
(* Characters of a text.                                                   *)
(***************************************************************************)
SP == [c |-> " "]
Ch(c) == [c |-> c]

RECURSIVE SplitFrom(_, _, _)
\* the parts of s[i..] split at every space, cur being the part under way
SplitFrom(s, i, cur) ==
  IF i > Len(s) THEN <<cur>>
  ELSE IF s[i] = SP THEN <<cur>> \o SplitFrom(s, i + 1, <<>>)
  ELSE SplitFrom(s, i + 1, Append(cur, s[i]))

\* s.split(" ") of a text: "".split(" ") is [""]
Split(s) == SplitFrom(s, 1, <<>>)

\* auth.split(" ")[1]
SecondPart(parts) == IF Len(parts) >= 2 THEN Text(parts[2]) ELSE Undef

BearerTokenLastPart(authorization) ==
  LET auth == Or(authorization, Text(<<>>))
      parts == Split(auth.v)
  IN  IF Len(parts) >= 1 THEN Text(parts[Len(parts)]) ELSE Undef

\* const auth = req.headers.authorization || ""; const token = auth.split(" ")[1];
BearerToken(authorization) ==
  LET auth == Or(authorization, Text(<<>>))
  IN  SecondPart(Split(auth.v))

(***************************************************************************)
(* jsonwebtoken.  A token is one character of the header text carrying its *)
(* payload {user, iat, exp} and its signature; the signature is an ideal   *)
(* MAC, the record of what was signed and with which key.                  *)
(***************************************************************************)
Mac(user, iat, exp, key) == [user |-> user, iat |-> iat, exp |-> exp, key |-> key]

Jwt(user, iat, exp, key) ==
  [c |-> "jwt", user |-> user, iat |-> iat, exp |-> exp, mac |-> Mac(user, iat, exp, key)]

\* Math.floor(Date.now() / 1000)
ClockTimestamp(nowMs) == nowMs \div MsPerSec

\* jwt.sign({ user }, secret, { expiresIn: "8h" }): throws when the secret is missing
JwtSign(user, secret, nowMs) ==
  IF ~Truthy(secret) THEN [ok |-> FALSE, token |-> Undef]
  ELSE LET iat == ClockTimestamp(nowMs)
       IN  [ok |-> TRUE,
            token |-> Text(<<Jwt(user, iat, iat + ExpiresInSec, secret.v)>>)]

JwtVerifyNoExpiry(token, secret, nowMs) ==
  IF /\ Len(token.v) = 1
     /\ token.v[1].c = "jwt"
     /\ Truthy(secret)
     /\ token.v[1].mac = Mac(token.v[1].user, token.v[1].iat, token.v[1].exp, secret.v)
  THEN [ok |-> TRUE, payload |-> [user |-> token.v[1].user]]
  ELSE [ok |-> FALSE, payload |-> [user |-> Undef]]

\* jwt.verify(token, secret): throws (ok = FALSE) on a malformed token, a missing
\* secret, a signature that does not match, or clockTimestamp >= payload.exp
JwtVerify(token, secret, nowMs) ==
  IF /\ Len(token.v) = 1
     /\ token.v[1].c = "jwt"
     /\ Truthy(secret)
     /\ token.v[1].mac = Mac(token.v[1].user, token.v[1].iat, token.v[1].exp, secret.v)
     /\ ~(ClockTimestamp(nowMs) >= token.v[1].exp)
  THEN [ok |-> TRUE, payload |-> [user |-> token.v[1].user]]
  ELSE [ok |-> FALSE, payload |-> [user |-> Undef]]

(***************************************************************************)
(* bcrypt.  The hash of a password is the record of the password hashed.   *)
(***************************************************************************)
BcryptHash(pw) == Str("$2b$10$" \o pw)

\* bcrypt.compare(data, hash): the promise rejects ("data and hash must be
\* strings") unless both are strings, and resolves to whether they match
BcryptCompare(data, hash) ==
  IF ~(IsString(data) /\ IsString(hash)) THEN "rejects"
  ELSE IF BcryptHash(data.v) = hash THEN "match"
  ELSE "nomatch"

(***************************************************************************)
(* The state.                                                              *)
(***************************************************************************)
VARIABLES
  env,            \* process.env: ADMIN_USER, ADMIN_PASS_HASH, JWT_SECRET
  now,            \* Date.now(), in milliseconds
  alive,          \* the Node process is running
  reqs,           \* the requests received so far, in order of arrival
  issued,         \* the tokens login has signed, each with the time of signing
  productos,      \* table productos
  productosSeq,   \* the last value of the sequence behind productos.id
  suscriptores,   \* table suscriptores
  suscriptoresSeq \* the last value of the sequence behind suscriptores.id

vars == <<env, now, alive, reqs, issued, productos, productosSeq,
          suscriptores, suscriptoresSeq>>

store == <<productos, productosSeq, suscriptores, suscriptoresSeq>>

AdminName == "admin"
AdminPassword == "s3creta"

\* the environment with everything configured
FullEnv ==
  [ADMIN_USER |-> Str(AdminName),
   ADMIN_PASS_HASH |-> BcryptHash(AdminPassword),
   JWT_SECRET |-> Str("jwt-secret")]

\* the environments the process may be started with
Envs ==
  { FullEnv,
    [FullEnv EXCEPT !.ADMIN_USER = Undef],
    [FullEnv EXCEPT !.ADMIN_PASS_HASH = Undef],
    [FullEnv EXCEPT !.JWT_SECRET = Undef] }

\* the instants at which the clock is observed: around a token's expiry
HalfSec == MsPerSec \div 2
ExpiresInMs == ExpiresInSec * MsPerSec
Instants ==
  {0, HalfSec, ExpiresInMs - HalfSec, ExpiresInMs, ExpiresInMs + HalfSec}

(***************************************************************************)
(* Requests and responses.                                                 *)
(***************************************************************************)
\* a response body: the text of its error/message/mensaje/success field, the
\* error detail it echoes, and its payload (token, producto, rows, user)
Body(msg, detail, data) == [msg |-> msg, detail |-> detail, data |-> data]
NoBody == Body("", Undef, Undef)

\* a request as it arrives: nothing has run yet
\* (seen is history: what the client had been told when it sent the request)
Req(kind, authorization, args) ==
  [kind |-> kind, authorization |-> authorization, args |-> args, at |-> now,
   pc |-> "start", user |-> Undef, status |-> 0, body |-> NoBody, steps |-> <<>>,
   seen |-> {}]

\* res.status(status).json(body)
Respond(r, status, body) ==
  [r EXCEPT !.pc = "done", !.status = status, !.body = body,
            !.steps = Append(@, "respond")]

\* the handler starts an external call and waits for it
Await(r, pc, call) == [r EXCEPT !.pc = pc, !.steps = Append(@, call)]

RECURSIVE Count(_, _)
Count(seq, x) ==
  IF seq = <<>> THEN 0
  ELSE (IF Head(seq) = x THEN 1 ELSE 0) + Count(Tail(seq), x)

Arrive(r) ==
  /\ alive
  /\ Len(reqs) < MaxReq
  /\ reqs' = Append(reqs, r)

Waiting(i, pc) ==
  /\ alive
  /\ i \in 1..Len(reqs)
  /\ reqs[i].pc = pc

(***************************************************************************)
(* requireAuth                                                             *)
(***************************************************************************)
RequireAuthNoVerify(r) ==
  LET token == BearerToken(r.authorization)
  IN  IF ~Truthy(token) THEN Respond(r, 401, Body("Token faltante", Undef, Undef))
      ELSE [r EXCEPT !.pc = "next",
                     !.user = IF Len(token.v) = 1 /\ token.v[1].c = "jwt"
                              THEN token.v[1].user ELSE Undef]

\* the middleware: 401 or next(), with req.user set
RequireAuth(r) ==
  LET token == BearerToken(r.authorization)
  IN  IF ~Truthy(token) THEN Respond(r, 401, Body("Token faltante", Undef, Undef))
      ELSE LET verified == JwtVerify(token, env.JWT_SECRET, now)
           IN  IF verified.ok
               THEN [r EXCEPT !.pc = "next", !.user = verified.payload.user]
               ELSE Respond(r, 401, Body("Token inválido", Undef, Undef))

(***************************************************************************)
(* POST /api/login                                                         *)
(***************************************************************************)
\* the handler up to its first await
LoginStart(r) ==
  LET user == r.args.user
      password == r.args.password
  IN  IF ~Truthy(user) \/ ~Truthy(password)
      THEN Respond(r, 400, Body("Credenciales faltantes", Undef, Undef))
      ELSE IF ~Truthy(env.ADMIN_USER) \/ ~Truthy(env.ADMIN_PASS_HASH)
      THEN Respond(r, 500, Body("Autenticación no configurada", Undef, Undef))
      ELSE IF user # env.ADMIN_USER
      THEN Respond(r, 401, Body("Usuario o contraseña incorrectos", Undef, Undef))
      ELSE Await(r, "awaitCompare", "bcrypt.compare")

LoginUsers == {Undef, Str(AdminName), Str("mallory")}
LoginPasswords == {Undef, Str(AdminPassword), Str("wrong"), Num(123)}

Login(users, passwords) ==
  \E user \in users, password \in passwords :
    /\ Arrive(LoginStart(Req("login", Undef, [user |-> user, password |-> password])))
    /\ UNCHANGED <<env, now, alive, issued, store>>

\* an exception in an async handler after its await: a promise rejection nobody
\* handles.  Express 4 never answers the request; Node >= 15 ends the process.
Unhandled(r) == [r EXCEPT !.pc = "unhandled", !.steps = Append(@, "throw")]

\* bcrypt.compare resolves: the rest of the login handler
LoginCompared(i) ==
  /\ Waiting(i, "awaitCompare")
  /\ LET r == reqs[i]
         match == BcryptCompare(r.args.password, env.ADMIN_PASS_HASH)
         signed == JwtSign(r.args.user, env.JWT_SECRET, now)
     IN  /\ match # "rejects"
         /\ IF match = "nomatch"
            THEN /\ reqs' = [reqs EXCEPT ![i] =
                      Respond(r, 401, Body("Usuario o contraseña incorrectos", Undef, Undef))]
                 /\ UNCHANGED <<alive, issued>>
            ELSE IF signed.ok
            THEN /\ reqs' = [reqs EXCEPT ![i] =
                      Respond(Await(r, "signed", "jwt.sign"), 200, Body("", Undef, signed.token))]
                 /\ issued' = issued \cup {[token |-> signed.token, at |-> now]}
                 /\ UNCHANGED alive
            ELSE /\ reqs' = [reqs EXCEPT ![i] = Unhandled(Await(r, "signed", "jwt.sign"))]
                 /\ alive' \in BOOLEAN
                 /\ UNCHANGED issued
  /\ UNCHANGED <<env, now, store>>

\* bcrypt.compare rejects: the await throws, outside any try
LoginCompareRejected(i) ==
  /\ Waiting(i, "awaitCompare")
  /\ BcryptCompare(reqs[i].args.password, env.ADMIN_PASS_HASH) = "rejects"
  /\ reqs' = [reqs EXCEPT ![i] = Unhandled(reqs[i])]
  /\ alive' \in BOOLEAN
  /\ UNCHANGED <<env, now, issued, store>>

(***************************************************************************)
(* GET /api/auth-check                                                     *)
(***************************************************************************)
AuthCheckHandler(r) ==
  LET token == BearerToken(r.authorization)
  IN  IF ~Truthy(token) THEN Respond(r, 401, Body("Token faltante", Undef, Undef))
      ELSE LET verified == JwtVerify(token, env.JWT_SECRET, now)
           IN  IF verified.ok
               THEN Respond([r EXCEPT !.user = verified.payload.user], 200,
                            Body("", Undef, verified.payload.user))
               ELSE Respond(r, 401, Body("Token inválido", Undef, Undef))

(***************************************************************************)
(* What a client can send as its Authorization header.                     *)
(***************************************************************************)
Bearer == Ch("Bearer")

\* a token signed by somebody who does not have the secret
ForgedToken == Jwt(Str(AdminName), 0, 4 * ExpiresInSec, "attacker-key")

\* an issued token with its expiry pushed back and its signature kept
Tampered(jwt) == [jwt EXCEPT !.exp = @ + ExpiresInSec]

IssuedJwts == { i.token.v[1] : i \in issued }

ClientJwts == IssuedJwts \cup { Tampered(j) : j \in IssuedJwts } \cup { ForgedToken }

\* headers without a token part: no header, "", "Bearer", "Bearer "
TokenlessHeaders == { Undef, Text(<<>>), Text(<<Bearer>>), Text(<<Bearer, SP>>) }

TokenHeaders == { Text(<<Bearer, SP, j>>) : j \in ClientJwts }

\* two parts after the scheme, and a token with no scheme before it
OddHeaders ==
  { Text(<<Bearer, SP, j, SP, Ch("x")>>) : j \in IssuedJwts } \cup
  { Text(<<j>>) : j \in IssuedJwts } \cup { Text(<<Bearer, SP, Ch("x")>>) }

AllHeaders == TokenlessHeaders \cup TokenHeaders \cup OddHeaders

AuthCheck(headers) ==
  \E h \in headers :
    /\ Arrive(AuthCheckHandler(Req("authCheck", h, Undef)))
    /\ UNCHANGED <<env, now, alive, issued, store>>

\* time passes
Tick ==
  /\ alive
  /\ \E t \in Instants : t > now /\ now' = t
  /\ UNCHANGED <<env, alive, reqs, issued, store>>

(***************************************************************************)
(* The datastore (PostgreSQL behind pool.query).  A statement is atomic.   *)
(***************************************************************************)
\* the message of the error a failing pool.query rejects with
DbErrorMessage == "connect ECONNREFUSED"
\* the message of the error a failing resend.emails.send rejects with
MailErrorMessage == "Unable to fetch data"

\* the integer a digit string stands for: the cast of $n to the id column
PgInt(s) == CASE s = "1" -> 1 [] s = "2" -> 2 [] s = "3" -> 3 [] OTHER -> 0

\* a query parameter as the driver sends it: undefined goes as NULL
PgParam(x) == IF x.t = "undefined" THEN Null ELSE x

ProductFields == {"nombre", "precio", "categoria", "stock", "imagen", "nueva_coleccion"}

\* the row of productos with this id and the columns of the body
ProductoRow(id, b) ==
  [id |-> id, nombre |-> PgParam(b.nombre), precio |-> PgParam(b.precio),
   categoria |-> PgParam(b.categoria), stock |-> PgParam(b.stock),
   imagen |-> PgParam(b.imagen), nueva_coleccion |-> PgParam(b.nueva_coleccion)]

RECURSIVE OrderByIdDesc(_)
\* ORDER BY id DESC
OrderByIdDesc(rows) ==
  IF rows = {} THEN <<>>
  ELSE LET top == CHOOSE r \in rows : \A q \in rows : q.id <= r.id
       IN  <<top>> \o OrderByIdDesc(rows \ {top})

Range(seq) == { seq[k] : k \in 1..Len(seq) }

(***************************************************************************)
(* The handlers of the store, up to their await.                           *)
(***************************************************************************)
\* if (!nombre || precio == null || !categoria || stock == null)
MissingProductFields(b) ==
  ~Truthy(b.nombre) \/ LooseNull(b.precio) \/ ~Truthy(b.categoria) \/ LooseNull(b.stock)

Query(r) == Await(r, "awaitDb", "pool.query")

\* GET /api/productos, GET /api/test: no middleware, no validation
PublicQueryStart(r) == Query(r)

\* POST /api/productos and PUT /api/productos/:id after requireAuth
ProductoWriteStart(r) ==
  LET a == RequireAuth(r)
  IN  IF a.pc # "next" THEN a
      ELSE IF MissingProductFields(a.args.body)
      THEN Respond(a, 400, Body("Faltan campos obligatorios", Undef, Undef))
      ELSE Query(a)

\* DELETE /api/productos/:id, GET /api/suscriptores, DELETE /api/suscriptores/:id
ProtectedQueryStart(r) ==
  LET a == RequireAuth(r)
  IN  IF a.pc # "next" THEN a ELSE Query(a)

\* /^[^\s@]+@[^\s@]+\.[^\s@]+$/.test(email)
EmailRegexTest(s) ==
  \E i \in 1..Len(s), j \in 1..Len(s) :
    /\ 1 < i /\ i + 1 < j /\ j < Len(s)
    /\ s[i] = Ch("@") /\ s[j] = Ch(".")
    /\ \A k \in (1..Len(s)) \ {i} : s[k] \notin {SP, Ch("@")}

\* POST /api/suscribirse
SuscribirseStart(r) ==
  LET email == r.args.email
  IN  IF ~Truthy(email) \/ ~EmailRegexTest(email.v)
      THEN Respond(r, 400, Body("Correo electrónico no válido", Undef, Undef))
      ELSE Query(r)

ContactoStartNoMensaje(r) ==
  IF ~Truthy(r.args.nombre) \/ ~Truthy(r.args.email)
  THEN Respond(r, 400, Body("Todos los campos son obligatorios.", Undef, Undef))
  ELSE Await(r, "awaitMail", "resend.emails.send")

\* POST /api/contacto
ContactoStart(r) ==
  IF ~Truthy(r.args.nombre) \/ ~Truthy(r.args.email) \/ ~Truthy(r.args.mensaje)
  THEN Respond(r, 400, Body("Todos los campos son obligatorios.", Undef, Undef))
  ELSE Await(r, "awaitMail", "resend.emails.send")

(***************************************************************************)
(* What the client has been told so far.                                   *)
(***************************************************************************)
\* the products that 201 responses have announced
Announced ==
  { reqs[k].body.data : k \in { n \in 1..Len(reqs) :
      reqs[n].kind = "postProductos" /\ reqs[n].status = 201 } }

\* the product ids a DELETE or PUT statement has changed or removed a row of
Touched ==
  { PgInt(reqs[k].args.id.v) : k \in { n \in 1..Len(reqs) :
      /\ reqs[n].kind \in {"putProductos", "deleteProductos"}
      /\ reqs[n].status \in {200, 204} } }

(***************************************************************************)
(* Arrivals.                                                               *)
(***************************************************************************)
GetProductos ==
  /\ Arrive(PublicQueryStart([Req("getProductos", Undef, Undef) EXCEPT !.seen = Announced]))
  /\ UNCHANGED <<env, now, alive, issued, store>>

PostProductos(headers, bodies) ==
  \E h \in headers, b \in bodies :
    /\ Arrive(ProductoWriteStart(Req("postProductos", h, [body |-> b])))
    /\ UNCHANGED <<env, now, alive, issued, store>>

PutProductos(headers, ids, bodies) ==
  \E h \in headers, id \in ids, b \in bodies :
    /\ Arrive(ProductoWriteStart(Req("putProductos", h, [id |-> Str(id), body |-> b])))
    /\ UNCHANGED <<env, now, alive, issued, store>>

DeleteProductos(headers, ids) ==
  \E h \in headers, id \in ids :
    /\ Arrive(ProtectedQueryStart(Req("deleteProductos", h, [id |-> Str(id)])))
    /\ UNCHANGED <<env, now, alive, issued, store>>

Suscribirse(emails) ==
  \E e \in emails :
    /\ Arrive(SuscribirseStart(Req("suscribirse", Undef, [email |-> e])))
    /\ UNCHANGED <<env, now, alive, issued, store>>

\* (the query string is left empty: search = "", limit = 50, offset = 0)
GetSuscriptores(headers) ==
  \E h \in headers :
    /\ Arrive(ProtectedQueryStart(Req("getSuscriptores", h, Undef)))
    /\ UNCHANGED <<env, now, alive, issued, store>>

DeleteSuscriptores(headers, ids) ==
  \E h \in headers, id \in ids :
    /\ Arrive(ProtectedQueryStart(Req("deleteSuscriptores", h, [id |-> Str(id)])))
    /\ UNCHANGED <<env, now, alive, issued, store>>

Test ==
  /\ Arrive(PublicQueryStart(Req("test", Undef, Undef)))
  /\ UNCHANGED <<env, now, alive, issued, store>>

Contacto(values) ==
  \E n \in values, e \in values, m \in values :
    /\ Arrive(ContactoStart(Req("contacto", Undef, [nombre |-> n, email |-> e, mensaje |-> m])))
    /\ UNCHANGED <<env, now, alive, issued, store>>

(***************************************************************************)
(* Completions: the statement runs, and the handler goes on to respond.    *)
(***************************************************************************)
Done(i, r) == reqs' = [reqs EXCEPT ![i] = r]

AwaitingDb(i, kind) == Waiting(i, "awaitDb") /\ reqs[i].kind = kind

\* SELECT * FROM productos ORDER BY id DESC
SelectProductos(i) ==
  /\ AwaitingDb(i, "getProductos")
  /\ Done(i, Respond([reqs[i] EXCEPT !.seen = { x \in @ : x.id \notin Touched }],
                     200, Body("", Undef, OrderByIdDesc(productos))))
  /\ UNCHANGED <<env, now, alive, issued, store>>

InsertProductoSwapped(i) ==
  /\ AwaitingDb(i, "postProductos")
  /\ LET b == reqs[i].args.body
         row == ProductoRow(productosSeq + 1, [b EXCEPT !.precio = b.stock, !.stock = b.precio])
     IN  /\ productos' = productos \cup {row}
         /\ productosSeq' = productosSeq + 1
         /\ Done(i, Respond(reqs[i], 201, Body("Producto agregado correctamente", Undef, row)))
  /\ UNCHANGED <<env, now, alive, issued, suscriptores, suscriptoresSeq>>

\* INSERT INTO productos (...) VALUES ($1, ..., $6) RETURNING *
InsertProducto(i) ==
  /\ AwaitingDb(i, "postProductos")
  /\ LET row == ProductoRow(productosSeq + 1, reqs[i].args.body)
     IN  /\ productos' = productos \cup {row}
         /\ productosSeq' = productosSeq + 1
         /\ Done(i, Respond(reqs[i], 201, Body("Producto agregado correctamente", Undef, row)))
  /\ UNCHANGED <<env, now, alive, issued, suscriptores, suscriptoresSeq>>

\* UPDATE productos SET ... WHERE id=$7 RETURNING *
UpdateProducto(i) ==
  /\ AwaitingDb(i, "putProductos")
  /\ LET id == PgInt(reqs[i].args.id.v)
         hit == { x \in productos : x.id = id }
         row == ProductoRow(id, reqs[i].args.body)
     IN  IF hit = {}
         THEN /\ Done(i, Respond(reqs[i], 404, Body("Producto no encontrado", Undef, Undef)))
              /\ UNCHANGED productos
         ELSE /\ productos' = (productos \ hit) \cup {row}
              /\ Done(i, Respond(reqs[i], 200,
                                 Body("Producto actualizado correctamente", Undef, row)))
  /\ UNCHANGED <<env, now, alive, issued, productosSeq, suscriptores, suscriptoresSeq>>

\* DELETE FROM productos WHERE id=$1, then res.sendStatus(204)
DeleteProducto(i) ==
  /\ AwaitingDb(i, "deleteProductos")
  /\ productos' = { x \in productos : x.id # PgInt(reqs[i].args.id.v) }
  /\ Done(i, Respond(reqs[i], 204, NoBody))
  /\ UNCHANGED <<env, now, alive, issued, productosSeq, suscriptores, suscriptoresSeq>>

InsertSuscriptorNoConflict(i) ==
  /\ AwaitingDb(i, "suscribirse")
  /\ suscriptoresSeq' = suscriptoresSeq + 1
  /\ suscriptores' = suscriptores \cup
        {[id |-> suscriptoresSeq + 1, email |-> reqs[i].args.email, fecha |-> now]}
  /\ Done(i, Respond(reqs[i], 201, Body("¡Gracias por suscribirte!", Undef, Undef)))
  /\ UNCHANGED <<env, now, alive, issued, productos, productosSeq>>

\* INSERT INTO suscriptores (email) VALUES ($1) ON CONFLICT (email) DO NOTHING
\* RETURNING id, email, fecha (the sequence advances on a conflict too)
InsertSuscriptor(i) ==
  /\ AwaitingDb(i, "suscribirse")
  /\ suscriptoresSeq' = suscriptoresSeq + 1
  /\ IF \E x \in suscriptores : x.email = reqs[i].args.email
     THEN /\ UNCHANGED suscriptores
          /\ Done(i, Respond(reqs[i], 200, Body("Ya estás suscrito", Undef, Undef)))
     ELSE /\ suscriptores' = suscriptores \cup
                {[id |-> suscriptoresSeq + 1, email |-> reqs[i].args.email, fecha |-> now]}
          /\ Done(i, Respond(reqs[i], 201, Body("¡Gracias por suscribirte!", Undef, Undef)))
  /\ UNCHANGED <<env, now, alive, issued, productos, productosSeq>>

\* SELECT id, email, fecha FROM suscriptores WHERE email ILIKE '%%' OR ...
\* ORDER BY fecha DESC LIMIT 50 OFFSET 0 (the rows, their order left out)
SelectSuscriptores(i) ==
  /\ AwaitingDb(i, "getSuscriptores")
  /\ Done(i, Respond(reqs[i], 200, Body("", Undef, suscriptores)))
  /\ UNCHANGED <<env, now, alive, issued, store>>

\* DELETE FROM suscriptores WHERE id = $1 RETURNING *
DeleteSuscriptor(i) ==
  /\ AwaitingDb(i, "deleteSuscriptores")
  /\ LET hit == { x \in suscriptores : x.id = PgInt(reqs[i].args.id.v) }
     IN  /\ suscriptores' = suscriptores \ hit
         /\ IF hit = {}
            THEN Done(i, Respond(reqs[i], 404, Body("Suscriptor no encontrado", Undef, Undef)))
            ELSE Done(i, Respond(reqs[i], 200,
                                 Body("Suscriptor eliminado correctamente", Undef, hit)))
  /\ UNCHANGED <<env, now, alive, issued, productos, productosSeq, suscriptoresSeq>>

\* SELECT NOW()
SelectNow(i) ==
  /\ AwaitingDb(i, "test")
  /\ Done(i, Respond(reqs[i], 200, Body("", Undef, Num(now))))
  /\ UNCHANGED <<env, now, alive, issued, store>>

\* the body each handler's catch answers with
CatchBody(kind) ==
  CASE kind = "getProductos" -> Body("Error al obtener productos", Undef, Undef)
    [] kind = "postProductos" -> Body("Error al agregar producto", Undef, Undef)
    [] kind = "putProductos" -> Body("Error al actualizar producto", Undef, Undef)
    [] kind = "deleteProductos" -> Body("Error al eliminar producto", Undef, Undef)
    [] kind = "suscribirse" -> Body("Error al registrar la suscripción", Undef, Undef)
    [] kind = "getSuscriptores" -> Body("Error al obtener la lista de suscriptores", Undef, Undef)
    [] kind = "deleteSuscriptores" -> Body("Error al eliminar el suscriptor", Undef, Undef)
    [] kind = "test" -> Body(DbErrorMessage, Undef, Bool(FALSE))
    [] kind = "contacto" -> Body("No se pudo enviar el mensaje. Intenta más tarde.",
                                 Str(MailErrorMessage), Undef)

\* pool.query rejects: the handler's catch
QueryFailed(i) ==
  /\ Waiting(i, "awaitDb")
  /\ Done(i, Respond([reqs[i] EXCEPT !.steps = Append(@, "catch")], 500,
                     CatchBody(reqs[i].kind)))
  /\ UNCHANGED <<env, now, alive, issued, store>>

\* resend.emails.send resolves
MailSent(i) ==
  /\ Waiting(i, "awaitMail")
  /\ Done(i, Respond(reqs[i], 200, Body("Mensaje enviado correctamente", Undef, Undef)))
  /\ UNCHANGED <<env, now, alive, issued, store>>

\* resend.emails.send rejects: the handler's catch
MailFailed(i) ==
  /\ Waiting(i, "awaitMail")
  /\ Done(i, Respond([reqs[i] EXCEPT !.steps = Append(@, "catch")], 500,
                     CatchBody(reqs[i].kind)))
  /\ UNCHANGED <<env, now, alive, issued, store>>

(***************************************************************************)
(* Inputs.                                                                 *)
(***************************************************************************)
\* stock = 0, price = 0, no image, no collection flag
ZeroBody ==
  [nombre |-> Str("Anillo"), precio |-> Num(0), categoria |-> Str("anillos"),
   stock |-> Num(0), imagen |-> Undef, nueva_coleccion |-> Undef]

FullBody ==
  [nombre |-> Str("Collar"), precio |-> Num(150), categoria |-> Str("collares"),
   stock |-> Num(3), imagen |-> Str("collar.png"), nueva_coleccion |-> Bool(TRUE)]

ValidBodies == {ZeroBody, FullBody}

InvalidBodies ==
  { [FullBody EXCEPT !.nombre = Undef], [FullBody EXCEPT !.precio = Null],
    [FullBody EXCEPT !.categoria = Str("")], [FullBody EXCEPT !.stock = Undef] }

A == Ch("a")
At == Ch("@")
Dot == Ch(".")

GoodEmails == { Text(<<A, At, A, Dot, A>>), Text(<<A, Dot, A, At, A, Dot, A>>) }
BadEmails == { Undef, Text(<<>>), Text(<<A, At, A>>), Text(<<A, At, Dot, A>>),
               Text(<<A, SP, At, A, Dot, A>>), Text(<<A, At, At, A, Dot, A>>) }

ContactValues == { Undef, Str(""), Str("hola") }

(***************************************************************************)
(* Initial states.                                                         *)
(***************************************************************************)
\* the product and the subscriber an earlier run has left in the tables
OldProducto == ProductoRow(1, FullBody)
OldSuscriptor == [id |-> 1, email |-> Text(<<A, At, A, Dot, A>>), fecha |-> -1]

\* the process has just started; the tables hold what an earlier run has left
Init ==
  /\ env \in Envs
  /\ now = 0
  /\ alive = TRUE
  /\ reqs = <<>>
  /\ issued = {}
  /\ productos = {OldProducto}
  /\ productosSeq = 1
  /\ suscriptores = {OldSuscriptor}
  /\ suscriptoresSeq = 1

\* the administrator has logged in at time 0 and holds the token
LoggedIn ==
  /\ env = FullEnv
  /\ now = 0
  /\ alive = TRUE
  /\ reqs = <<>>
  /\ issued = {[token |-> JwtSign(Str(AdminName), FullEnv.JWT_SECRET, 0).token, at |-> 0]}

\* ... and the catalogue is empty or holds one product
InitCatalog ==
  /\ LoggedIn
  /\ \E n \in {0, 1} :
       /\ productos = IF n = 1 THEN {OldProducto} ELSE {}
       /\ productosSeq = n
  /\ suscriptores = {OldSuscriptor}
  /\ suscriptoresSeq = 1

\* ... and there is no subscriber or one
InitSubs ==
  /\ LoggedIn
  /\ productos = {OldProducto}
  /\ productosSeq = 1
  /\ \E n \in {0, 1} :
       /\ suscriptores = IF n = 1 THEN {OldSuscriptor} ELSE {}
       /\ suscriptoresSeq = n

(***************************************************************************)
(* Specifications.                                                         *)
(***************************************************************************)
Slots == 1..MaxReq

\* the gate: login, and every endpoint behind a token, with every header
NextGate ==
  \/ Login(LoginUsers, LoginPasswords)
  \/ \E i \in Slots : LoginCompared(i)
  \/ \E i \in Slots : LoginCompareRejected(i)
  \/ AuthCheck(AllHeaders)
  \/ PostProductos(AllHeaders, {ZeroBody})
  \/ PutProductos(AllHeaders, {"1"}, {ZeroBody})
  \/ DeleteProductos(AllHeaders, {"1"})
  \/ GetSuscriptores(AllHeaders)
  \/ DeleteSuscriptores(AllHeaders, {"1"})
  \/ \E i \in Slots : InsertProducto(i)
  \/ \E i \in Slots : UpdateProducto(i)
  \/ \E i \in Slots : DeleteProducto(i)
  \/ \E i \in Slots : SelectSuscriptores(i)
  \/ \E i \in Slots : DeleteSuscriptor(i)
  \/ \E i \in Slots : QueryFailed(i)

SpecGate == Init /\ [][NextGate]_vars

\* tokens over time: the administrator logs in, and the two places that verify a
\* token are sent the tokens issued
NextToken ==
  \/ Login({Str(AdminName)}, {Str(AdminPassword)})
  \/ \E i \in Slots : LoginCompared(i)
  \/ AuthCheck(TokenHeaders)
  \/ GetSuscriptores(TokenHeaders)
  \/ \E i \in Slots : SelectSuscriptores(i)
  \/ \E i \in Slots : QueryFailed(i)
  \/ Tick

SpecToken == Init /\ [][NextToken]_vars

\* the catalogue
NextCatalog ==
  \/ GetProductos
  \/ PostProductos(TokenHeaders \cup {Undef}, ValidBodies \cup InvalidBodies)
  \/ PutProductos(TokenHeaders \cup {Undef}, {"1", "2"}, {ZeroBody, [FullBody EXCEPT !.stock = Undef]})
  \/ DeleteProductos(TokenHeaders \cup {Undef}, {"1", "2"})
  \/ \E i \in Slots : SelectProductos(i)
  \/ \E i \in Slots : InsertProducto(i)
  \/ \E i \in Slots : UpdateProducto(i)
  \/ \E i \in Slots : DeleteProducto(i)
  \/ \E i \in Slots : QueryFailed(i)

SpecCatalog == InitCatalog /\ [][NextCatalog]_vars

\* the subscribers, and the connectivity probe
NextSubs ==
  \/ Suscribirse(GoodEmails \cup BadEmails)
  \/ GetSuscriptores(TokenHeaders \cup {Undef})
  \/ DeleteSuscriptores(TokenHeaders \cup {Undef}, {"1", "2"})
  \/ Test
  \/ \E i \in Slots : InsertSuscriptor(i)
  \/ \E i \in Slots : SelectSuscriptores(i)
  \/ \E i \in Slots : DeleteSuscriptor(i)
  \/ \E i \in Slots : SelectNow(i)
  \/ \E i \in Slots : QueryFailed(i)

SpecSubs == InitSubs /\ [][NextSubs]_vars

\* the contact form
NextContact ==
  \/ Contacto(ContactValues)
  \/ \E i \in Slots : MailSent(i)
  \/ \E i \in Slots : MailFailed(i)

SpecContact == Init /\ [][NextContact]_vars

(***************************************************************************)
(* Properties.                                                             *)
(***************************************************************************)
Reqs == Range(reqs)

Protected ==
  {"postProductos", "putProductos", "deleteProductos", "getSuscriptores", "deleteSuscriptores"}

Calls(r, call) == Count(r.steps, call)

\* the tokens a request's Authorization header holds
Carried(r) ==
  IF r.authorization.t = "text"
  THEN { c \in Range(r.authorization.v) : c.c = "jwt" }
  ELSE {}

\* the header is "Bearer <token>" with this token
Presents(r, token) == r.authorization = Text(<<Bearer, SP>> \o token.v)

\* the login requests that were answered with this token
LoginsFor(token) ==
  { l \in Reqs : l.kind = "login" /\ l.status = 200 /\ l.body.data = token }

\* C1: the datastore operation of an endpoint behind requireAuth runs only for a
\* request whose header holds a token that login issued, that carries the admin
\* username, is signed with the secret and has not expired; and login has issued
\* a token only to a request with the admin username and the matching password.
C1_StoreOnlyForAdminToken ==
  /\ \A r \in Reqs :
       (r.kind \in Protected /\ Calls(r, "pool.query") > 0) =>
         \E j \in Carried(r) :
           /\ j \in IssuedJwts
           /\ Str(j.mac.key) = env.JWT_SECRET
           /\ ClockTimestamp(r.at) < j.exp
           /\ j.user = env.ADMIN_USER
           /\ r.user = env.ADMIN_USER
  /\ \A i \in issued :
       \E l \in LoginsFor(i.token) :
         /\ l.args.user = env.ADMIN_USER
         /\ BcryptHash(l.args.password.v) = env.ADMIN_PASS_HASH

\* a request with the administrator's token has changed the catalogue
C1_Witness ==
  \E r \in Reqs :
    /\ r.kind = "postProductos" /\ r.status = 201
    /\ \E l \in Reqs : l.kind = "login" /\ l.status = 200 /\ Presents(r, l.body.data)

Rejected(r) == r.status = 401 /\ r.body.msg = "Token inválido"

Accepted(r) == r.status # 401 /\ r.user = env.ADMIN_USER

Authorizes == {"authCheck", "getSuscriptores"}

\* C2 as stated: a token issued at time t is rejected at every time at or past
\* t + 8 hours and accepted at every time strictly before t + 8 hours.
C2_ExpiryToTheMillisecond ==
  \A r \in Reqs : \A i \in issued :
    (r.kind \in Authorizes /\ Presents(r, i.token) /\ r.at >= i.at) =>
      /\ (r.at >= i.at + ExpiresInMs) => Rejected(r)
      /\ (r.at < i.at + ExpiresInMs) => Accepted(r)

\* C2 amended: a token issued at time t is rejected whenever the current time in
\* whole seconds is at or past t in whole seconds plus 8 hours, which includes
\* every time at or past t + 8 hours, and is accepted at every other time.
C2_ExpiryInWholeSeconds ==
  \A r \in Reqs : \A i \in issued :
    (r.kind \in Authorizes /\ Presents(r, i.token) /\ r.at >= i.at) =>
      /\ (r.at >= i.at + ExpiresInMs) => Rejected(r)
      /\ (ClockTimestamp(r.at) >= ClockTimestamp(i.at) + ExpiresInSec) => Rejected(r)
      /\ (ClockTimestamp(r.at) < ClockTimestamp(i.at) + ExpiresInSec) => Accepted(r)

\* a token issued half a second into a second is rejected 8 hours later
C2_Witness ==
  \E r \in Reqs : \E i \in issued :
    /\ r.kind \in Authorizes /\ Presents(r, i.token)
    /\ i.at = MsPerSec \div 2
    /\ r.at >= i.at + ExpiresInMs /\ Rejected(r)

\* C3: a login with both credentials present and the admin identity configured
\* runs the hash comparison before it answers, whatever the username.
C3_HashAlwaysCompared ==
  \A r \in Reqs :
    ( /\ r.kind = "login" /\ r.pc = "done"
      /\ r.args.user \notin {Undef, Str("")} /\ r.args.password \notin {Undef, Str("")}
      /\ env.ADMIN_USER # Undef /\ env.ADMIN_PASS_HASH # Undef ) =>
        Calls(r, "bcrypt.compare") = 1

\* C4: a request to an endpoint behind a token whose Authorization header is
\* absent or has no token part is answered 401 "Token faltante"; nothing else of
\* the handler runs and the datastore is not called.
C4_NoTokenIs401 ==
  \A r \in Reqs :
    (r.kind \in Protected \cup {"authCheck"} /\ r.authorization \in TokenlessHeaders) =>
      /\ r.status = 401
      /\ r.body.msg = "Token faltante"
      /\ r.steps = <<"respond">>

\* every endpoint behind requireAuth has turned a header without a token away
C4_Witness ==
  /\ \E r \in Reqs : r.kind = "deleteSuscriptores" /\ r.authorization = Text(<<Bearer, SP>>)
                     /\ r.status = 401
  /\ \E r \in Reqs : r.kind = "authCheck" /\ r.authorization = Undef /\ r.status = 401

\* the subscription requests with this email that the datastore has served
Subscribed(e, status) ==
  { k \in 1..Len(reqs) :
      reqs[k].kind = "suscribirse" /\ reqs[k].args.email = e /\ reqs[k].status = status }

\* the email was in the table when the process started, or a row with it has
\* been deleted since
HeldOrDeleted(e) ==
  \/ \E x \in suscriptores : x.email = e /\ x.fecha < 0
  \/ \E r \in Reqs : /\ r.kind = "deleteSuscriptores" /\ r.status = 200
                     /\ \E x \in r.body.data : x.email = e

\* C5: of the subscription requests with one valid email, in any interleaving,
\* starting without the email and with no deletion, exactly one is answered 201,
\* every other one the datastore serves is answered 200, and exactly one row
\* with the email is kept.
C5_OneSubscriptionPerEmail ==
  \A e \in GoodEmails :
    ~HeldOrDeleted(e) =>
      LET created == Cardinality(Subscribed(e, 201))
          already == Cardinality(Subscribed(e, 200))
          rows == Cardinality({ x \in suscriptores : x.email = e })
      IN  /\ created <= 1
          /\ rows = created
          /\ already > 0 => created = 1
          /\ \A r \in Reqs :
               (r.kind = "suscribirse" /\ r.args.email = e /\ r.pc = "done") =>
                 r.status \in {200, 201, 500}

\* the same email has been submitted twice: one 201, one 200, one row
C5_Witness ==
  \E e \in GoodEmails :
    /\ ~HeldOrDeleted(e)
    /\ Cardinality(Subscribed(e, 201)) = 1
    /\ Cardinality(Subscribed(e, 200)) = 1
    /\ Cardinality({ x \in suscriptores : x.email = e }) = 1

\* the request passed requireAuth and its statement ran without an error
Served(r) == r.pc = "done" /\ Calls(r, "pool.query") = 1 /\ Calls(r, "catch") = 0

\* C6: an authorized DELETE of a product or subscriber id that matches no row
\* (here: an id the sequence has not reached) is answered 404.
C6_DeleteMissingIs404 ==
  \A r \in Reqs :
    /\ ( r.kind = "deleteProductos" /\ Served(r) /\ PgInt(r.args.id.v) > productosSeq )
         => r.status = 404
    /\ ( r.kind = "deleteSuscriptores" /\ Served(r) /\ PgInt(r.args.id.v) > suscriptoresSeq )
         => r.status = 404

\* C7: no request is left without a response by an exception nobody catches,
\* and no request is answered twice.
C7_EveryFailureIsAnswered ==
  \A r \in Reqs : r.pc # "unhandled" /\ Calls(r, "respond") <= 1

\* C8: outside the contact endpoint, the response to a datastore failure is a 500
\* that does not carry the error's message.
C8_NoErrorDetailOutsideContacto ==
  \A r \in Reqs :
    (r.kind # "contacto" /\ Calls(r, "catch") > 0) =>
      /\ r.status = 500
      /\ r.body.msg # DbErrorMessage
      /\ r.body.detail = Undef

MissingOrEmpty(x) == x \in {Undef, Null, Str("")}

\* C9: a contact request with a missing or empty name, email or body is answered
\* 400 and the mail relay is not called; with all three it is called exactly once.
C9_RelayOnlyForCompleteMessage ==
  \A r \in Reqs :
    r.kind = "contacto" =>
      IF \E f \in {"nombre", "email", "mensaje"} : MissingOrEmpty(r.args[f])
      THEN r.status = 400 /\ Calls(r, "resend.emails.send") = 0
      ELSE Calls(r, "resend.emails.send") = 1

\* one message lacked its body and was refused, another was complete and sent
C9_Witness ==
  /\ \E r \in Reqs : /\ r.kind = "contacto" /\ r.status = 400
                     /\ r.args.mensaje = Str("") /\ r.args.nombre = Str("hola")
                     /\ r.args.email = Str("hola")
  /\ \E r \in Reqs : r.kind = "contacto" /\ r.status = 200

\* the fields of the body that were submitted are those of the row
FieldsEqual(b, row) == \A f \in ProductFields : b[f] # Undef => row[f] = b[f]

Creations == { k \in 1..Len(reqs) : reqs[k].kind = "postProductos" /\ reqs[k].status = 201 }

\* C10: an authorized POST /api/productos with a valid body (price 0 and stock 0
\* included) that the datastore serves is answered 201 with a producto whose
\* fields are the submitted ones; the item stays in the table, and every GET
\* sent after the 201 lists it, until a DELETE or PUT on its id; and two
\* creations never return the same id.
C10_CreateThenList ==
  /\ \A r \in Reqs :
       ( /\ r.kind = "postProductos" /\ r.pc = "done" /\ Calls(r, "catch") = 0
         /\ r.args.body \in ValidBodies
         /\ \E i \in issued : Presents(r, i.token) ) =>
           /\ r.status = 201
           /\ FieldsEqual(r.args.body, r.body.data)
  /\ \A x \in Announced : x.id \notin Touched => x \in productos
  /\ \A g \in Reqs :
       (g.kind = "getProductos" /\ g.status = 200) => g.seen \subseteq Range(g.body.data)
  /\ \A k, l \in Creations : k # l => reqs[k].body.data.id # reqs[l].body.data.id

\* a product with price 0 and stock 0 has been created, and a later GET lists it
C10_Witness ==
  \E r, g \in Reqs :
    /\ r.kind = "postProductos" /\ r.status = 201 /\ r.args.body = ZeroBody
    /\ g.kind = "getProductos" /\ g.status = 200
    /\ r.body.data \in g.seen
    /\ r.body.data \in Range(g.body.data)

=============================================================================
